---- MODULE Spec2Model ----
(***************************************************************************)
(* Model of the gbx interchange library (src/src/lib.rs): the register     *)
(* document data model, its serde encoding, the redaction precedence, the  *)
(* area-size derivations and the text normalizer.                          *)
(*                                                                         *)
(* Conventions of the model                                                *)
(*   String            a sequence of one-character strings                 *)
(*   Option<T>         <<>> for None, <<x>> for Some(x)                    *)
(*   Vec<T>            a sequence                                          *)
(*   struct            a record with one field per struct field            *)
(*   enum              [var |-> variant name, ...payload fields]           *)
(*   Result<T, E>      <<>> for Err(_), <<x>> for Ok(x)                    *)
(***************************************************************************)
EXTENDS Integers, Sequences, FiniteSets, TLC

VARIABLES
    kind,       \* name of the record type of `record`
    record,     \* a section record, receiver of ist_geroetet()
    geroetet,   \* value returned by ist_geroetet()
    groesse,    \* a FlurstueckGroesse, receiver of get_m2() and the strings
    m2,         \* value returned by get_m2()
    ha_string,  \* value returned by get_ha_string()
    a_string,   \* value returned by get_a_string()
    m2_string,  \* value returned by get_m2_string()
    wide,       \* a FlurstueckGroesse with components of the full u64 range
    overflow_checks, \* the build: overflow panics (debug) or wraps (release)
    total,      \* outcome of get_m2() on `wide`: a value or a panic
    text,       \* a StringOrLines, receiver of text_clean()
    clean,      \* value returned by text_clean()
    rendered,   \* the String returned by text() or by String::from(text)
    converted,  \* the StringOrLines returned by StringOrLines::from(rendered)
    segment,    \* the sub-segment `s` that the loop of unhyphenate works on
    type_name,  \* name of the type that is exchanged: PdfFile or Abt1Eintrag
    value,      \* the value in memory that is serialized
    wire,       \* the JSON value on the wire
    loaded,     \* result of deserializing the wire
    done        \* operations already applied to the inputs of this run

varsGeroetet == <<kind, record, geroetet>>
varsGroesse ==
    <<groesse, m2, ha_string, a_string, m2_string, wide, overflow_checks, total>>
varsText == <<text, clean, rendered, converted, segment>>
varsCodec == <<type_name, value, wire, loaded>>
vars == <<varsGeroetet, varsGroesse, varsText, varsCodec, done>>

(***************************************************************************)
(* Bounds of the model.                                                    *)
(***************************************************************************)
\* number of fields of a record that differ from the record's base value
MaxVaried == 3
\* every component of an area takes all the values 0..MaxComponent
MaxComponent == 12
\* number of tokens an input text is made of
MaxTokens == 4

(***************************************************************************)
(* Option<T>                                                               *)
(***************************************************************************)
None == <<>>
Some(x) == <<x>>
is_none(o) == Len(o) = 0
is_some(o) == Len(o) = 1
unwrap_or(o, d) == IF is_some(o) THEN o[1] ELSE d
or(o, optb) == IF is_some(o) THEN o ELSE optb

(***************************************************************************)
(* StringOrLines, FlurstueckGroesse, PositionInPdf values                  *)
(***************************************************************************)
SingleLine(s) == [var |-> "SingleLine", s |-> s]
MultiLine(ml) == [var |-> "MultiLine", ml |-> ml]

Metrisch(m) == [var |-> "Metrisch", m2 |-> m]
Hektar(h, ar, m) == [var |-> "Hektar", ha |-> h, a |-> ar, m2 |-> m]

Rect(x0, y0, x1, y1) == [min_x |-> x0, min_y |-> y0, max_x |-> x1, max_y |-> y1]
PositionInPdf(s, r) == [seite |-> s, rect |-> r]

(***************************************************************************)
(* Field declarations.  A struct is described by the sequence of its       *)
(* fields in declaration order; each field carries its type, whether it    *)
(* has #[serde(default)], and its #[serde(skip_serializing_if)] predicate  *)
(* ("never" when it has none).  A type is a sequence: <<"usize">>,         *)
(* <<"Option", "bool">>, <<"Vec", "Abt2Eintrag">>.                         *)
(***************************************************************************)
F(name, ty, default, skip) ==
    [name |-> name, ty |-> ty, default |-> default, skip |-> skip]

FUsize(name) == F(name, <<"usize">>, FALSE, "never")
FText(name) == F(name, <<"StringOrLines">>, TRUE, "StringOrLines::is_empty")
FOpt(name, of) == F(name, <<"Option", of>>, TRUE, "Option::is_none")
\* an Option field that has skip_serializing_if but no #[serde(default)]
FOptNoDefault(name, of) == F(name, <<"Option", of>>, FALSE, "Option::is_none")
FVec(name, of) == F(name, <<"Vec", of>>, TRUE, "Vec::is_empty")

\* the records of the Bestandsverzeichnis
Schema_Bv(name) ==
    CASE name = "BvEintragRecht" ->
            << FUsize("lfd_nr"),
               FText("zu_nr"),
               FOpt("bisherige_lfd_nr", "usize"),
               FText("text"),
               FOpt("automatisch_geroetet", "bool"),
               FOpt("manuell_geroetet", "bool"),
               FOpt("position_in_pdf", "PositionInPdf") >>
      [] name = "BvEintragFlurstueck" ->
            << FUsize("lfd_nr"),
               FOpt("bisherige_lfd_nr", "usize"),
               FUsize("flur"),
               F("flurstueck", <<"String">>, TRUE, "String::is_empty"),
               FOpt("gemarkung", "String"),
               FOpt("bezeichnung", "StringOrLines"),
               F("groesse", <<"FlurstueckGroesse">>, TRUE, "FlurstueckGroesse::ist_leer"),
               FOpt("automatisch_geroetet", "bool"),
               FOpt("manuell_geroetet", "bool"),
               FOpt("position_in_pdf", "PositionInPdf") >>
      [] name = "BvZuschreibung" ->
            << FText("bv_nr"),
               FText("text"),
               FOpt("automatisch_geroetet", "bool"),
               FOpt("manuell_geroetet", "bool"),
               FOpt("position_in_pdf", "PositionInPdf") >>
      [] name = "BvAbschreibung" ->
            << FText("bv_nr"),
               FText("text"),
               FOpt("automatisch_geroetet", "bool"),
               FOpt("manuell_geroetet", "bool"),
               FOpt("position_in_pdf", "PositionInPdf") >>

\* the records of Abteilung 1
Schema_Abt1(name) ==
    CASE name = "Abt1EintragV2" ->
            << FUsize("lfd_nr"),
               FText("eigentuemer"),
               FUsize("version"),
               FOpt("automatisch_geroetet", "bool"),
               FOpt("manuell_geroetet", "bool"),
               FOpt("position_in_pdf", "PositionInPdf") >>
      [] name = "Abt1EintragV1" ->
            << FUsize("lfd_nr"),
               FText("eigentuemer"),
               FText("bv_nr"),
               FText("grundlage_der_eintragung"),
               FOptNoDefault("automatisch_geroetet", "bool"),
               FOpt("manuell_geroetet", "bool"),
               FOpt("position_in_pdf", "PositionInPdf") >>
      [] name = "Abt1GrundEintragung" ->
            << FText("bv_nr"),
               FText("text"),
               FOptNoDefault("automatisch_geroetet", "bool"),
               FOpt("manuell_geroetet", "bool"),
               FOpt("position_in_pdf", "PositionInPdf") >>
      [] name = "Abt1Veraenderung" ->
            << FText("lfd_nr"),
               FText("text"),
               FOpt("automatisch_geroetet", "bool"),
               FOpt("manuell_geroetet", "bool"),
               FOpt("position_in_pdf", "PositionInPdf") >>
      [] name = "Abt1Loeschung" ->
            << FText("lfd_nr"),
               FText("text"),
               FOpt("automatisch_geroetet", "bool"),
               FOpt("manuell_geroetet", "bool"),
               FOpt("position_in_pdf", "PositionInPdf") >>

\* the records of Abteilung 2
Schema_Abt2(name) ==
    CASE name = "Abt2Eintrag" ->
            << FUsize("lfd_nr"),
               FText("bv_nr"),
               FText("text"),
               FOptNoDefault("automatisch_geroetet", "bool"),
               FOpt("manuell_geroetet", "bool"),
               FOpt("position_in_pdf", "PositionInPdf") >>
      [] name = "Abt2Veraenderung" ->
            << FText("lfd_nr"),
               FText("text"),
               FOpt("automatisch_geroetet", "bool"),
               FOpt("manuell_geroetet", "bool"),
               FOpt("position_in_pdf", "PositionInPdf") >>
      [] name = "Abt2Loeschung" ->
            << FText("lfd_nr"),
               FText("text"),
               FOpt("automatisch_geroetet", "bool"),
               FOpt("manuell_geroetet", "bool"),
               FOpt("position_in_pdf", "PositionInPdf") >>

\* the records of Abteilung 3
Schema_Abt3(name) ==
    CASE name = "Abt3Eintrag" ->
            << FUsize("lfd_nr"),
               FText("bv_nr"),
               FText("betrag"),
               FText("text"),
               FOpt("automatisch_geroetet", "bool"),
               FOpt("manuell_geroetet", "bool"),
               FOpt("position_in_pdf", "PositionInPdf") >>
      [] name = "Abt3Veraenderung" ->
            << FText("lfd_nr"),
               FText("betrag"),
               FText("text"),
               FOptNoDefault("automatisch_geroetet", "bool"),
               FOpt("manuell_geroetet", "bool"),
               FOpt("position_in_pdf", "PositionInPdf") >>
      [] name = "Abt3Loeschung" ->
            << FText("lfd_nr"),
               FText("betrag"),
               FText("text"),
               FOptNoDefault("automatisch_geroetet", "bool"),
               FOpt("manuell_geroetet", "bool"),
               FOpt("position_in_pdf", "PositionInPdf") >>

Schema_Rect == <<
    F("min_x", <<"f32">>, FALSE, "never"),
    F("min_y", <<"f32">>, FALSE, "never"),
    F("max_x", <<"f32">>, FALSE, "never"),
    F("max_y", <<"f32">>, FALSE, "never") >>

Schema_PositionInPdf == <<
    F("seite", <<"String">>, FALSE, "never"),
    F("rect", <<"Rect">>, FALSE, "never") >>

Schema_PdfFile == <<
    F("digitalisiert", <<"bool">>, TRUE, "never"),
    F("hocr", <<"HocrLayout">>, TRUE, "HocrLayout::is_empty"),
    F("anpassungen_seite", <<"BTreeMap", "AnpassungSeite">>, TRUE, "BTreeMap::is_empty"),
    F("analysiert", <<"Grundbuch">>, FALSE, "never") >>

\* the structs of the OCR layout tree
Schema_Hocr(name) ==
    CASE name = "HocrLayout" ->
            << F("seiten", <<"BTreeMap", "HocrSeite">>, TRUE, "BTreeMap::is_empty") >>
      [] name = "HocrSeite" ->
            << F("breite_mm", <<"f32">>, FALSE, "never"),
               F("hoehe_mm", <<"f32">>, FALSE, "never"),
               F("parsed", <<"ParsedHocr">>, FALSE, "never"),
               F("rote_linien", <<"Vec", "Linie">>, TRUE, "never") >>
      [] name = "Linie" ->
            << F("punkte", <<"Vec", "Punkt">>, FALSE, "never") >>
      [] name = "Punkt" ->
            << F("x", <<"f32">>, FALSE, "never"),
               F("y", <<"f32">>, FALSE, "never") >>
      [] name = "ParsedHocr" ->
            << F("bounds", <<"Rect">>, FALSE, "never"),
               F("careas", <<"Vec", "HocrArea">>, FALSE, "never") >>
      [] name = "HocrArea" ->
            << F("bounds", <<"Rect">>, FALSE, "never"),
               F("paragraphs", <<"Vec", "HocrParagraph">>, FALSE, "never") >>
      [] name = "HocrParagraph" ->
            << F("bounds", <<"Rect">>, FALSE, "never"),
               F("lines", <<"Vec", "HocrLine">>, FALSE, "never") >>
      [] name = "HocrLine" ->
            << F("bounds", <<"Rect">>, FALSE, "never"),
               F("words", <<"Vec", "HocrWord">>, FALSE, "never") >>
      [] name = "HocrWord" ->
            << F("bounds", <<"Rect">>, FALSE, "never"),
               F("confidence", <<"f32">>, FALSE, "never"),
               F("text", <<"String">>, FALSE, "never") >>

Schema_AnpassungSeite == <<
    FOpt("klassifikation_neu", "SeitenTyp"),
    F("spalten", <<"BTreeMap", "Rect">>, TRUE, "BTreeMap::is_empty"),
    F("zeilen", <<"BTreeMap", "f32">>, TRUE, "BTreeMap::is_empty"),
    F("zeilen_auto", <<"BTreeMap", "f32">>, TRUE, "BTreeMap::is_empty") >>

Schema_Grundbuch == <<
    F("titelblatt", <<"Titelblatt">>, FALSE, "never"),
    F("bestandsverzeichnis", <<"Bestandsverzeichnis">>, TRUE, "Bestandsverzeichnis::is_empty"),
    F("abt1", <<"Abteilung1">>, TRUE, "Abteilung1::is_empty"),
    F("abt2", <<"Abteilung2">>, TRUE, "Abteilung2::is_empty"),
    F("abt3", <<"Abteilung3">>, TRUE, "Abteilung3::is_empty") >>

Schema_Titelblatt == <<
    F("amtsgericht", <<"String">>, FALSE, "never"),
    F("grundbuch_von", <<"String">>, FALSE, "never"),
    F("blatt", <<"String">>, FALSE, "never") >>

Schema_Bestandsverzeichnis == <<
    FVec("eintraege", "BvEintrag"),
    FVec("zuschreibungen", "BvZuschreibung"),
    FVec("abschreibungen", "BvAbschreibung") >>

Schema_Abteilung1 == <<
    FVec("eintraege", "Abt1Eintrag"),
    FVec("grundlagen_eintragungen", "Abt1GrundEintragung"),
    FVec("veraenderungen", "Abt1Veraenderung"),
    FVec("loeschungen", "Abt1Loeschung") >>

Schema_Abteilung2 == <<
    FVec("eintraege", "Abt2Eintrag"),
    FVec("veraenderungen", "Abt2Veraenderung"),
    FVec("loeschungen", "Abt2Loeschung") >>

Schema_Abteilung3 == <<
    FVec("eintraege", "Abt3Eintrag"),
    FVec("veraenderungen", "Abt3Veraenderung"),
    FVec("loeschungen", "Abt3Loeschung") >>

\* the wire tokens of SeitenTyp
SeitenTyp ==
    { "bv-horz", "bv-horz-zu-und-abschreibungen", "bv-vert", "bv-vert-typ2",
      "bv-vert-zu-und-abschreibungen", "bv-vert-zu-und-abschreibungen-alt",
      "abt1-horz", "abt1-vert", "abt1-vert-typ2",
      "abt2-horz-veraenderungen", "abt2-horz", "abt2-vert-veraenderungen",
      "abt2-vert", "abt2-vert-typ2",
      "abt3-horz-veraenderungen-loeschungen",
      "abt3-vert-veraenderungen-loeschungen", "abt3-horz",
      "abt3-vert-veraenderungen", "abt3-vert-loeschungen", "abt3-vert" }

StructNames ==
    { "PdfFile", "HocrLayout", "HocrSeite", "Linie", "Punkt", "ParsedHocr",
      "HocrArea", "HocrParagraph", "HocrLine", "HocrWord", "AnpassungSeite",
      "Rect", "Grundbuch", "Titelblatt", "Bestandsverzeichnis",
      "BvEintragRecht", "BvEintragFlurstueck", "PositionInPdf",
      "BvZuschreibung", "BvAbschreibung", "Abteilung1", "Abt1EintragV2",
      "Abt1EintragV1", "Abt1GrundEintragung", "Abt1Veraenderung",
      "Abt1Loeschung", "Abteilung2", "Abt2Eintrag", "Abt2Veraenderung",
      "Abt2Loeschung", "Abteilung3", "Abt3Eintrag", "Abt3Veraenderung",
      "Abt3Loeschung" }

Schema(name) ==
    CASE name \in {"BvEintragRecht", "BvEintragFlurstueck", "BvZuschreibung",
                    "BvAbschreibung"} ->
            Schema_Bv(name)
      [] name \in {"Abt1EintragV2", "Abt1EintragV1", "Abt1GrundEintragung",
                    "Abt1Veraenderung", "Abt1Loeschung"} ->
            Schema_Abt1(name)
      [] name \in {"Abt2Eintrag", "Abt2Veraenderung", "Abt2Loeschung"} ->
            Schema_Abt2(name)
      [] name \in {"Abt3Eintrag", "Abt3Veraenderung", "Abt3Loeschung"} ->
            Schema_Abt3(name)
      [] name = "Rect" -> Schema_Rect
      [] name = "PositionInPdf" -> Schema_PositionInPdf
      [] name = "PdfFile" -> Schema_PdfFile
      [] name \in {"HocrLayout", "HocrSeite", "Linie", "Punkt", "ParsedHocr",
                    "HocrArea", "HocrParagraph", "HocrLine", "HocrWord"} ->
            Schema_Hocr(name)
      [] name = "AnpassungSeite" -> Schema_AnpassungSeite
      [] name = "Grundbuch" -> Schema_Grundbuch
      [] name = "Titelblatt" -> Schema_Titelblatt
      [] name = "Bestandsverzeichnis" -> Schema_Bestandsverzeichnis
      [] name = "Abteilung1" -> Schema_Abteilung1
      [] name = "Abteilung2" -> Schema_Abteilung2
      [] name = "Abteilung3" -> Schema_Abteilung3

FieldNames(schema) == {schema[i].name : i \in DOMAIN schema}
FieldOf(schema, name) == schema[CHOOSE i \in DOMAIN schema : schema[i].name = name]

(***************************************************************************)
(* Input values.  Samples(ty) lists the values a field of type ty takes in *)
(* the inputs of a run; the first one is the field's value in the base     *)
(* record of its struct.                                                   *)
(***************************************************************************)
SampleRect == Rect(0, 0, 1, 1)

Samples(ty) ==
    CASE ty = <<"usize">> -> <<1, 0>>
      [] ty = <<"String">> -> << <<"a">>, <<>> >>
      [] ty = <<"StringOrLines">> ->
            << MultiLine(<< <<"a">> >>), MultiLine(<<>>),
               SingleLine(<<"a">>), SingleLine(<<>>) >>
      [] ty = <<"FlurstueckGroesse">> ->
            << Metrisch(Some(5)), Metrisch(None),
               Hektar(Some(1), Some(2), Some(3)), Hektar(None, None, None),
               Hektar(Some(1), None, None), Hektar(None, Some(2), None),
               Hektar(None, None, Some(3)) >>
      [] ty = <<"Option", "bool">> -> << None, Some(TRUE), Some(FALSE) >>
      [] ty = <<"Option", "usize">> -> << None, Some(0), Some(1) >>
      [] ty = <<"Option", "String">> -> << None, Some(<<>>), Some(<<"a">>) >>
      [] ty = <<"Option", "StringOrLines">> ->
            << None, Some(SingleLine(<<>>)), Some(SingleLine(<<"a">>)),
               Some(MultiLine(<<>>)), Some(MultiLine(<< <<"a">> >>)) >>
      [] ty = <<"Option", "PositionInPdf">> ->
            << None, Some(PositionInPdf(<<"1">>, SampleRect)) >>

\* the values of the fields i.. of a struct, as sequences, of which at most
\* n are not the first sample of their field
RECURSIVE VariantFields(_, _, _)
VariantFields(schema, i, n) ==
    IF i > Len(schema) THEN {<<>>}
    ELSE LET samples == Samples(schema[i].ty)
         IN {<<samples[1]>> \o rest : rest \in VariantFields(schema, i + 1, n)}
            \cup (IF n = 0 THEN {}
                  ELSE {<<samples[k]>> \o rest :
                            k \in 2..Len(samples),
                            rest \in VariantFields(schema, i + 1, n - 1)})

\* the records of struct `name` that differ from its base record in at most
\* n fields
Variants(name, n) ==
    LET schema == Schema(name)
        index(nm) == CHOOSE i \in DOMAIN schema : schema[i].name = nm
    IN {[nm \in FieldNames(schema) |-> fields[index(nm)]] :
            fields \in VariantFields(schema, 1, n)}

Flurstueck(r) == [var |-> "Flurstueck", v |-> r]
Recht(r) == [var |-> "Recht", v |-> r]
V1(r) == [var |-> "V1", v |-> r]
V2(r) == [var |-> "V2", v |-> r]

\* the input values of a record type, struct or enum
Values(name) ==
    CASE name = "BvEintrag" ->
            {Flurstueck(r) : r \in Variants("BvEintragFlurstueck", MaxVaried)}
            \cup {Recht(r) : r \in Variants("BvEintragRecht", MaxVaried)}
      [] name = "Abt1Eintrag" ->
            {V1(r) : r \in Variants("Abt1EintragV1", MaxVaried)}
            \cup {V2(r) : r \in Variants("Abt1EintragV2", MaxVaried)}
      [] OTHER -> Variants(name, MaxVaried)

(***************************************************************************)
(* ist_geroetet(), one definition per impl block                           *)
(***************************************************************************)
Abt1EintragV1_ist_geroetet(self) ==
    unwrap_or(or(self.manuell_geroetet, self.automatisch_geroetet), FALSE)

BvEintrag_ist_geroetet(self) ==
    CASE self.var = "Flurstueck" ->
            unwrap_or(self.v.manuell_geroetet,
                      unwrap_or(self.v.automatisch_geroetet, FALSE))
      [] self.var = "Recht" ->
            unwrap_or(self.v.manuell_geroetet,
                      unwrap_or(self.v.automatisch_geroetet, FALSE))

Abt1GrundEintragung_ist_geroetet(self) ==
    unwrap_or(or(self.manuell_geroetet, self.automatisch_geroetet), FALSE)

BvZuschreibung_ist_geroetet(self) ==
    unwrap_or(or(self.manuell_geroetet, self.automatisch_geroetet), FALSE)

BvAbschreibung_ist_geroetet(self) ==
    unwrap_or(or(self.manuell_geroetet, self.automatisch_geroetet), FALSE)

Abt1EintragV2_ist_geroetet(self) ==
    unwrap_or(or(self.manuell_geroetet, self.automatisch_geroetet), FALSE)

Abt1Eintrag_ist_geroetet(self) ==
    CASE self.var = "V1" -> Abt1EintragV1_ist_geroetet(self.v)
      [] self.var = "V2" -> Abt1EintragV2_ist_geroetet(self.v)

Abt2Eintrag_ist_geroetet(self) ==
    unwrap_or(or(self.manuell_geroetet, self.automatisch_geroetet), FALSE)

Abt3Eintrag_ist_geroetet(self) ==
    unwrap_or(or(self.manuell_geroetet, self.automatisch_geroetet), FALSE)

Abt1Veraenderung_ist_geroetet(self) ==
    unwrap_or(or(self.manuell_geroetet, self.automatisch_geroetet), FALSE)

Abt1Loeschung_ist_geroetet(self) ==
    unwrap_or(or(self.manuell_geroetet, self.automatisch_geroetet), FALSE)

Abt2Veraenderung_ist_geroetet(self) ==
    unwrap_or(or(self.manuell_geroetet, self.automatisch_geroetet), FALSE)

Abt2Loeschung_ist_geroetet(self) ==
    unwrap_or(or(self.manuell_geroetet, self.automatisch_geroetet), FALSE)

Abt3Veraenderung_ist_geroetet(self) ==
    unwrap_or(or(self.manuell_geroetet, self.automatisch_geroetet), FALSE)

\* the mutant of Abt3Loeschung_ist_geroetet: the automatic flag wins
Abt3Loeschung_ist_geroetet_auto_first(self) ==
    unwrap_or(or(self.automatisch_geroetet, self.manuell_geroetet), FALSE)

Abt3Loeschung_ist_geroetet(self) ==
    unwrap_or(or(self.manuell_geroetet, self.automatisch_geroetet), FALSE)

(***************************************************************************)
(* Specification of the redaction status: a record of any kind is given,   *)
(* ist_geroetet() is called on it.                                         *)
(***************************************************************************)
GeroetetKinds ==
    { "BvEintrag", "BvZuschreibung", "BvAbschreibung", "Abt1EintragV1",
      "Abt1EintragV2", "Abt1Eintrag", "Abt1GrundEintragung",
      "Abt1Veraenderung", "Abt1Loeschung", "Abt2Eintrag", "Abt2Veraenderung",
      "Abt2Loeschung", "Abt3Eintrag", "Abt3Veraenderung", "Abt3Loeschung" }

\* the variables of a group when a run does not use them
Idle(group) ==
    CASE group = "Geroetet" -> kind = "" /\ record = <<>> /\ geroetet = FALSE
      [] group = "Groesse" ->
            /\ groesse = Metrisch(None)
            /\ m2 = 0
            /\ ha_string = <<>>
            /\ a_string = <<>>
            /\ m2_string = <<>>
            /\ wide = Metrisch(None)
            /\ overflow_checks = FALSE
            /\ total = [var |-> "none"]
      [] group = "Text" ->
            /\ text = SingleLine(<<>>)
            /\ clean = <<>>
            /\ rendered = <<>>
            /\ converted = MultiLine(<<>>)
            /\ segment = <<>>
      [] group = "Codec" ->
            type_name = "" /\ value = <<>> /\ wire = [t |-> "null"] /\ loaded = <<>>

InitGeroetet ==
    /\ kind \in GeroetetKinds
    /\ record \in Values(kind)
    /\ geroetet = FALSE
    /\ done = {}
    /\ Idle("Groesse")
    /\ Idle("Text")
    /\ Idle("Codec")

\* ist_geroetet() is called on a record of kind k and returns result
Call_ist_geroetet(k, result) ==
    /\ kind = k
    /\ "ist_geroetet" \notin done
    /\ geroetet' = result
    /\ done' = done \cup {"ist_geroetet"}
    /\ UNCHANGED <<kind, record, varsGroesse, varsText, varsCodec>>

NextGeroetet ==
    \/ Call_ist_geroetet("BvEintrag", BvEintrag_ist_geroetet(record))
    \/ Call_ist_geroetet("BvZuschreibung", BvZuschreibung_ist_geroetet(record))
    \/ Call_ist_geroetet("BvAbschreibung", BvAbschreibung_ist_geroetet(record))
    \/ Call_ist_geroetet("Abt1EintragV1", Abt1EintragV1_ist_geroetet(record))
    \/ Call_ist_geroetet("Abt1EintragV2", Abt1EintragV2_ist_geroetet(record))
    \/ Call_ist_geroetet("Abt1Eintrag", Abt1Eintrag_ist_geroetet(record))
    \/ Call_ist_geroetet("Abt1GrundEintragung", Abt1GrundEintragung_ist_geroetet(record))
    \/ Call_ist_geroetet("Abt1Veraenderung", Abt1Veraenderung_ist_geroetet(record))
    \/ Call_ist_geroetet("Abt1Loeschung", Abt1Loeschung_ist_geroetet(record))
    \/ Call_ist_geroetet("Abt2Eintrag", Abt2Eintrag_ist_geroetet(record))
    \/ Call_ist_geroetet("Abt2Veraenderung", Abt2Veraenderung_ist_geroetet(record))
    \/ Call_ist_geroetet("Abt2Loeschung", Abt2Loeschung_ist_geroetet(record))
    \/ Call_ist_geroetet("Abt3Eintrag", Abt3Eintrag_ist_geroetet(record))
    \/ Call_ist_geroetet("Abt3Veraenderung", Abt3Veraenderung_ist_geroetet(record))
    \/ Call_ist_geroetet("Abt3Loeschung", Abt3Loeschung_ist_geroetet(record))

SpecGeroetet == InitGeroetet /\ [][NextGeroetet]_vars

\* the struct behind a record: the payload of an enum, the record itself
\* otherwise
Inner(k, r) == IF k \in {"BvEintrag", "Abt1Eintrag"} THEN r.v ELSE r

\* the precedence table of the redaction status
Precedence(manuell, automatisch) ==
    CASE manuell = Some(TRUE) -> TRUE
      [] manuell = Some(FALSE) -> FALSE
      [] manuell = None /\ automatisch = Some(TRUE) -> TRUE
      [] manuell = None /\ automatisch = Some(FALSE) -> FALSE
      [] manuell = None /\ automatisch = None -> FALSE

\* C1: for every record kind with the two redaction flags and every
\* combination of the flags, ist_geroetet() returns the manual flag when
\* present, else the automatic flag when present, else false, whatever the
\* other fields hold.
C1_Precedence ==
    "ist_geroetet" \in done =>
        geroetet = Precedence(Inner(kind, record).manuell_geroetet,
                              Inner(kind, record).automatisch_geroetet)

\* C1 witness: a manual override set to false wins over an automatic flag
\* set to true, in a record whose running number differs from the base
C1_Witness ==
    /\ "ist_geroetet" \in done
    /\ kind = "Abt3Loeschung"
    /\ record.manuell_geroetet = Some(FALSE)
    /\ record.automatisch_geroetet = Some(TRUE)
    /\ record.lfd_nr = SingleLine(<<"a">>)
    /\ geroetet = FALSE

(***************************************************************************)
(* FlurstueckGroesse                                                       *)
(***************************************************************************)
ist_leer(self) ==
    CASE self.var = "Metrisch" -> is_none(self.m2)
      [] self.var = "Hektar" ->
            is_none(self.m2) /\ is_none(self.ha) /\ is_none(self.a)

\* the mutant of get_m2: a hectare counted as 10_000 square meters
get_m2_ha_10000(self) ==
    CASE self.var = "Metrisch" -> unwrap_or(self.m2, 0)
      [] self.var = "Hektar" ->
            unwrap_or(self.ha, 0) * 10000 + unwrap_or(self.a, 0) * 100
                + unwrap_or(self.m2, 0)

\* u64 arithmetic; the inputs of the runs keep every result below 2^31
get_m2(self) ==
    CASE self.var = "Metrisch" -> unwrap_or(self.m2, 0)
      [] self.var = "Hektar" ->
            unwrap_or(self.ha, 0) * 100000 + unwrap_or(self.a, 0) * 100
                + unwrap_or(self.m2, 0)

DigitChars == <<"0", "1", "2", "3", "4", "5", "6", "7", "8", "9">>

\* format!("{}", n) of an unsigned integer, as a Vec<char>
RECURSIVE format(_)
format(n) ==
    IF n < 10 THEN <<DigitChars[n + 1]>>
    ELSE Append(format(n \div 10), DigitChars[(n % 10) + 1])

\* Vec::pop, the popped element dropped: nothing happens on an empty Vec
pop(v) == IF Len(v) = 0 THEN v ELSE SubSeq(v, 1, Len(v) - 1)

\* for _ in 0..n { v.pop(); }
RECURSIVE pop_times(_, _)
pop_times(v, n) == IF n <= 0 THEN v ELSE pop_times(pop(v), n - 1)

reverse(v) == [i \in 1..Len(v) |-> v[Len(v) + 1 - i]]

saturating_sub(x, y) == IF x >= y THEN x - y ELSE 0

\* the mutant of get_ha_string: five characters popped instead of four
get_ha_string_pop5(self) ==
    pop_times(format(get_m2(self)), 5)

get_ha_string(self) ==
    pop_times(format(get_m2(self)), 4)

\* the mutant of get_a_string: the leading characters are not cut off
get_a_string_uncut(self) ==
    LET m2_string_chars == reverse(format(get_m2(self)))
        last4 == reverse(m2_string_chars)
    IN pop_times(last4, 2)

get_a_string(self) ==
    LET m2_string_chars == reverse(format(get_m2(self)))
        last4 == reverse(pop_times(m2_string_chars,
                                   saturating_sub(Len(m2_string_chars), 4)))
    IN pop_times(last4, 2)

get_m2_string(self) ==
    LET m2_string_chars == reverse(format(get_m2(self)))
        fi == reverse(pop_times(m2_string_chars,
                                saturating_sub(Len(m2_string_chars), 2)))
    IN IF Len(fi) = 0 THEN <<"0">> ELSE fi

(***************************************************************************)
(* get_m2() at the width of u64.  A u64 is a sequence of 8 bytes, the      *)
(* least significant first; the exact result of an operation carries its   *)
(* further bytes behind them.                                              *)
(***************************************************************************)
\* the exact product of x and the small factor k, plus carry: three bytes
\* longer than x
RECURSIVE wide_mul(_, _, _)
wide_mul(x, k, carry) ==
    IF Len(x) = 0
    THEN <<carry % 256, (carry \div 256) % 256, carry \div 65536>>
    ELSE LET p == x[1] * k + carry
         IN <<p % 256>> \o wide_mul(Tail(x), k, p \div 256)

\* the exact sum of x and y (of one length), plus carry: one byte longer
RECURSIVE wide_add(_, _, _)
wide_add(x, y, carry) ==
    IF Len(x) = 0 THEN <<carry>>
    ELSE LET p == x[1] + y[1] + carry
         IN <<p % 256>> \o wide_add(Tail(x), Tail(y), p \div 256)

\* the outcome of a u64 operation `*` or `+` whose exact result is exact:
\* the value when it fits 8 bytes; otherwise a panic in a build with
\* overflow checks and the value modulo 2^64 in a build without
u64_outcome(exact, checks) ==
    IF \A i \in 9..Len(exact) : exact[i] = 0
    THEN [var |-> "value", v |-> SubSeq(exact, 1, 8)]
    ELSE IF checks THEN [var |-> "panic"]
    ELSE [var |-> "value", v |-> SubSeq(exact, 1, 8)]

\* get_m2() on components of the full u64 range: ha * 100_000, then a * 100,
\* then the two sums, the first panic ending the call
get_m2_u64(self, checks) ==
    LET zero == <<0, 0, 0, 0, 0, 0, 0, 0>>
    IN CASE self.var = "Metrisch" -> [var |-> "value", v |-> unwrap_or(self.m2, zero)]
         [] self.var = "Hektar" ->
            LET ha == u64_outcome(wide_mul(unwrap_or(self.ha, zero), 100000, 0), checks)
                a == u64_outcome(wide_mul(unwrap_or(self.a, zero), 100, 0), checks)
            IN IF ha.var = "panic" \/ a.var = "panic" THEN [var |-> "panic"]
               ELSE LET sum == u64_outcome(wide_add(ha.v, a.v, 0), checks)
                    IN IF sum.var = "panic" THEN sum
                       ELSE u64_outcome(
                                wide_add(sum.v, unwrap_or(self.m2, zero), 0), checks)

\* values of the Hektar form over the u64 range: absent, 0, 1, 99, the
\* largest ha whose product fits, the next one, and u64::MAX
WideGroessen ==
    LET U64 == { <<0, 0, 0, 0, 0, 0, 0, 0>>, <<1, 0, 0, 0, 0, 0, 0, 0>>,
                 <<99, 0, 0, 0, 0, 0, 0, 0>>,
                 <<71, 27, 71, 172, 197, 167, 0, 0>>,
                 <<72, 27, 71, 172, 197, 167, 0, 0>>,
                 <<255, 255, 255, 255, 255, 255, 255, 255>> }
        Wide == {None} \cup {Some(n) : n \in U64}
    IN {Hektar(h, ar, m) : h \in Wide, ar \in Wide, m \in Wide}

(***************************************************************************)
(* Specification of the area size: a FlurstueckGroesse is given, get_m2()  *)
(* and the three display strings are taken of it, in any order; or a      *)
(* value with components of the u64 range is given and get_m2() is called  *)
(* on it in a build with or without overflow checks.                       *)
(***************************************************************************)
\* the values of a component: absent, the small ones, and further ones of two
\* and more digits with the carry into the next group
Components ==
    {None} \cup {Some(n) : n \in (0..MaxComponent) \cup {34, 67, 99, 100, 345}}

\* the area sizes of both forms, with further totals of the Metrisch form
Groessen ==
    {Metrisch(m) : m \in Components
                      \cup {Some(n) : n \in {4567, 12345, 1234567, 20000000}}}
    \cup {Hektar(h, ar, m) : h \in Components, ar \in Components, m \in Components}

InitGroesse ==
    /\ \/ /\ groesse \in Groessen
          /\ wide = Metrisch(None)
          /\ overflow_checks = FALSE
          /\ done = {}
       \/ /\ groesse = Metrisch(None)
          /\ wide \in WideGroessen
          /\ overflow_checks \in BOOLEAN
          /\ done = {"u64"}
    /\ total = [var |-> "none"]
    /\ m2 = 0
    /\ ha_string = <<>>
    /\ a_string = <<>>
    /\ m2_string = <<>>
    /\ Idle("Geroetet")
    /\ Idle("Text")
    /\ Idle("Codec")

Call_get_m2 ==
    /\ "get_m2" \notin done
    /\ m2' = get_m2(groesse)
    /\ done' = done \cup {"get_m2"}
    /\ UNCHANGED <<groesse, ha_string, a_string, m2_string, wide,
                   overflow_checks, total, varsGeroetet, varsText, varsCodec>>

Call_get_ha_string ==
    /\ "get_ha_string" \notin done
    /\ ha_string' = get_ha_string(groesse)
    /\ done' = done \cup {"get_ha_string"}
    /\ UNCHANGED <<groesse, m2, a_string, m2_string, wide,
                   overflow_checks, total, varsGeroetet, varsText, varsCodec>>

Call_get_a_string ==
    /\ "get_a_string" \notin done
    /\ a_string' = get_a_string(groesse)
    /\ done' = done \cup {"get_a_string"}
    /\ UNCHANGED <<groesse, m2, ha_string, m2_string, wide,
                   overflow_checks, total, varsGeroetet, varsText, varsCodec>>

Call_get_m2_string ==
    /\ "get_m2_string" \notin done
    /\ m2_string' = get_m2_string(groesse)
    /\ done' = done \cup {"get_m2_string"}
    /\ UNCHANGED <<groesse, m2, ha_string, a_string, wide,
                   overflow_checks, total, varsGeroetet, varsText, varsCodec>>

\* get_m2() on a value of the full u64 range, in a debug or a release build
Call_get_m2_u64 ==
    /\ done = {"u64"}
    /\ total' = get_m2_u64(wide, overflow_checks)
    /\ done' = {"u64", "get_m2_u64"}
    /\ UNCHANGED <<groesse, m2, ha_string, a_string, m2_string, wide,
                   overflow_checks, varsGeroetet, varsText, varsCodec>>

NextGroesse ==
    \/ Call_get_m2
    \/ Call_get_ha_string
    \/ Call_get_a_string
    \/ Call_get_m2_string
    \/ Call_get_m2_u64

SpecGroesse == InitGroesse /\ [][NextGroesse]_vars

\* a component with an absent one counted as 0
Counted(o) == IF o = None THEN 0 ELSE o[1]

\* C8: get_m2() is the stored m2 or 0 for the Metrisch form, and
\* ha*100000 + a*100 + m2 with absent components counted as 0 for the Hektar
\* form.
C8_TotalSquareMeters ==
    "get_m2" \in done =>
        /\ groesse.var = "Metrisch" => m2 = Counted(groesse.m2)
        /\ groesse.var = "Hektar" =>
                m2 = Counted(groesse.ha) * 100000 + Counted(groesse.a) * 100
                        + Counted(groesse.m2)

\* C8 witness: a Hektar value with its three components present
C8_Witness ==
    /\ "get_m2" \in done
    /\ groesse = Hektar(Some(12), Some(34), Some(67))
    /\ m2 = 1203467

AllStringsDone ==
    {"get_m2", "get_ha_string", "get_a_string", "get_m2_string"} \subseteq done

\* the number written by a string of decimal digits, the empty string
\* counting as 0
RECURSIVE Number(_)
Number(s) ==
    IF Len(s) = 0 THEN 0
    ELSE Number(SubSeq(s, 1, Len(s) - 1)) * 10
            + (CHOOSE d \in 0..9 : DigitChars[d + 1] = s[Len(s)])

IsDecimalOf(s, n) ==
    /\ Len(s) >= 1
    /\ \A i \in 1..Len(s) : \E d \in 0..9 : DigitChars[d + 1] = s[i]
    /\ Len(s) > 1 => s[1] # "0"
    /\ Number(s) = n

Min(x, y) == IF x <= y THEN x ELSE y

\* C9: the three display strings partition the decimal digit string of the
\* total from the right: the last two digits, the up to two digits before
\* them, all digits before the last four; their concatenation is the decimal
\* string of the total and the square-meters string is never empty.
C9_Partition ==
    AllStringsDone =>
        LET digits == ha_string \o a_string \o m2_string
        IN /\ IsDecimalOf(digits, m2)
           /\ Len(m2_string) = Min(2, Len(digits))
           /\ Len(a_string) = Min(2, Len(digits) - Len(m2_string))
           /\ Len(m2_string) >= 1
           /\ m2 = 0 => m2_string = <<"0">>

\* C9 witness: a Hektar value whose total has hectares, ares and square
\* meters digits
C9_Witness ==
    /\ AllStringsDone
    /\ groesse = Hektar(Some(12), Some(3), Some(7))
    /\ ha_string = <<"1", "2", "0">>
    /\ a_string = <<"0", "3">>
    /\ m2_string = <<"0", "7">>

\* C10 as stated: a total of 1_234_567 gives "12", "34" and "67", a total of
\* 0 gives the square-meters string "0".
C10_Original ==
    AllStringsDone =>
        /\ m2 = 1234567 =>
                /\ ha_string = <<"1", "2">>
                /\ a_string = <<"3", "4">>
                /\ m2_string = <<"6", "7">>
        /\ m2 = 0 => m2_string = <<"0">>

\* C10 amended: a total of 1_234_567 gives "123", "45" and "67", a total of
\* 0 gives the square-meters string "0".
C10_Examples ==
    AllStringsDone =>
        /\ m2 = 1234567 =>
                /\ ha_string = <<"1", "2", "3">>
                /\ a_string = <<"4", "5">>
                /\ m2_string = <<"6", "7">>
        /\ m2 = 0 => m2_string = <<"0">>

\* C10 witness: the strings of the total 1_234_567 have been taken
C10_Witness ==
    /\ AllStringsDone
    /\ m2 = 1234567
    /\ ha_string = <<"1", "2", "3">>

(***************************************************************************)
(* Strings                                                                 *)
(***************************************************************************)
CRLF == <<"\r", "\n">>

\* [String]::join(sep)
RECURSIVE join(_, _)
join(ls, sep) ==
    IF Len(ls) = 0 THEN <<>>
    ELSE IF Len(ls) = 1 THEN ls[1]
    ELSE ls[1] \o sep \o join(Tail(ls), sep)

\* position of the first occurrence of pat in s at or after from, 0 if none
find(s, pat, from) ==
    LET hits == {i \in from..(Len(s) - Len(pat) + 1) :
                    SubSeq(s, i, i + Len(pat) - 1) = pat}
    IN IF hits = {} THEN 0 ELSE CHOOSE i \in hits : \A j \in hits : i <= j

\* str::lines(): the text is cut after every "\n"; a line loses its final
\* "\n" and then a final "\r"; a text that ends with "\n" has no empty last
\* line
RECURSIVE str_lines(_)
str_lines(s) ==
    IF Len(s) = 0 THEN <<>>
    ELSE LET i == find(s, <<"\n">>, 1)
         IN IF i = 0 THEN <<s>>
            ELSE LET line == SubSeq(s, 1, i - 1)
                     stripped == IF Len(line) > 0 /\ line[Len(line)] = "\r"
                                 THEN SubSeq(line, 1, Len(line) - 1)
                                 ELSE line
                 IN <<stripped>> \o str_lines(SubSeq(s, i + 1, Len(s)))

\* str::split(pat): the pieces between the occurrences of pat, found from
\* the left without overlap; always at least one piece
RECURSIVE str_split(_, _)
str_split(s, pat) ==
    LET i == find(s, pat, 1)
    IN IF i = 0 THEN <<s>>
       ELSE <<SubSeq(s, 1, i - 1)>> \o str_split(SubSeq(s, i + Len(pat), Len(s)), pat)

(***************************************************************************)
(* REGEX_UNHYPHENATE: any text, a hyphen, one whitespace, one letter of     *)
(* a-z or an umlaut, any text; the first, third and fourth are groups.     *)
(***************************************************************************)
\* \s, the whitespace class, as far as the inputs use it
Whitespace == {" ", "\t", "\n", "\r", "\f"}

\* the letter class of the pattern
LowerLetter ==
    {"a", "b", "c", "d", "e", "f", "g", "h", "i", "j", "k", "l", "m", "n", "o",
     "p", "q", "r", "s", "t", "u", "v", "w", "x", "y", "z", "ü", "ä", "ö"}

\* the hyphen, the whitespace and the letter match at position i
HyphenAt(s, i) ==
    /\ i + 2 <= Len(s)
    /\ s[i] = "-"
    /\ s[i + 1] \in Whitespace
    /\ s[i + 2] \in LowerLetter

\* . matches every character but "\n"
NoNewline(s, from, to) == \A k \in from..to : s[k] # "\n"

\* Regex::is_match: an unanchored search, the any-text groups may be empty
is_match(s) == \E i \in 1..Len(s) : HyphenAt(s, i)

\* Regex::replace_all(s, "$1$2$3") on the part of s from `from` on: the
\* leftmost match starts as early as any-text can reach back from the first
\* hyphen, the greedy first group ends at the last hyphen it can reach, the
\* last group runs to the end of the line; the search goes on behind it
RECURSIVE replace_from(_, _)
replace_from(s, from) ==
    LET hyphens == {i \in from..Len(s) : HyphenAt(s, i)}
    IN IF hyphens = {} THEN SubSeq(s, from, Len(s))
       ELSE LET first == CHOOSE i \in hyphens : \A j \in hyphens : i <= j
                start == CHOOSE p \in from..first :
                            /\ NoNewline(s, p, first - 1)
                            /\ \A q \in from..(p - 1) : ~NoNewline(s, q, first - 1)
                reach == {i \in hyphens : NoNewline(s, start, i - 1)}
                hyphen == CHOOSE i \in reach : \A j \in reach : j <= i
                ends == {e \in (hyphen + 2)..Len(s) : NoNewline(s, hyphen + 3, e)}
                end == CHOOSE e \in ends : \A f \in ends : f <= e
            IN SubSeq(s, from, hyphen - 1) \o <<s[hyphen + 2]>>
                 \o SubSeq(s, hyphen + 3, end) \o replace_from(s, end + 1)

replace_all(s) == replace_from(s, 1)

\* while REGEX_UNHYPHENATE.is_match(&s) { s = replace_all(&s, "$1$2$3") }
RECURSIVE unhyphenate_segment(_)
unhyphenate_segment(s) ==
    IF is_match(s) THEN unhyphenate_segment(replace_all(s)) ELSE s

UndMarker == <<"-", " ", "u", "n", "d", " ">>

\* the inner loop of unhyphenate over the pieces l of one line: every piece
\* is pushed, and "- und " after every piece but the last
RECURSIVE push_segments(_)
push_segments(l) ==
    IF Len(l) = 0 THEN <<>>
    ELSE unhyphenate_segment(l[1])
            \o (IF Len(l) > 1 THEN UndMarker ELSE <<>>)
            \o push_segments(Tail(l))

\* the outer loop of unhyphenate over und_saetze
RECURSIVE push_lines(_)
push_lines(und_saetze) ==
    IF Len(und_saetze) = 0 THEN <<>>
    ELSE push_segments(und_saetze[1]) \o push_lines(Tail(und_saetze))

\* the mutant of unhyphenate: the lines are not split on "- und "
unhyphenate_unsplit(t) ==
    LET ls == str_lines(t)
    IN push_lines([k \in 1..Len(ls) |-> <<ls[k]>>])

unhyphenate(t) ==
    LET ls == str_lines(t)
    IN push_lines([k \in 1..Len(ls) |-> str_split(ls[k], UndMarker)])

(***************************************************************************)
(* StringOrLines                                                           *)
(***************************************************************************)
StringOrLines_is_empty(self) ==
    CASE self.var = "SingleLine" -> Len(self.s) = 0
      [] self.var = "MultiLine" -> Len(self.ml) = 0

StringOrLines_lines(self) ==
    CASE self.var = "SingleLine" -> str_lines(self.s)
      [] self.var = "MultiLine" -> self.ml

StringOrLines_text(self) == join(StringOrLines_lines(self), CRLF)

text_clean(self) == unhyphenate(join(StringOrLines_lines(self), CRLF))

\* impl From<StringOrLines> for String
String_from(s) ==
    CASE s.var = "SingleLine" -> s.s
      [] s.var = "MultiLine" -> join(s.ml, CRLF)

\* the mutant of the conversion: the string is kept as the opaque variant
StringOrLines_from_opaque(s) == SingleLine(s)

\* impl From<String> for StringOrLines
StringOrLines_from(s) == MultiLine(str_lines(s))

\* the mutant of the default: the opaque variant is built directly
StringOrLines_default_single == SingleLine(<<>>)

\* impl Default for StringOrLines: String::new().into()
StringOrLines_default == StringOrLines_from(<<>>)

(***************************************************************************)
(* Specification of the text normalizer: a StringOrLines is given,         *)
(* text_clean() is called on it; it is rendered to a String by text() or   *)
(* by String::from, and a StringOrLines is built from that String again;   *)
(* or the replacement loop of unhyphenate runs, pass by pass, on one of    *)
(* the sub-segments of the text.                                           *)
(***************************************************************************)
Tokens == { <<"a">>, <<"B">>, <<"-">>, <<" ">>, <<"\n">>, UndMarker }

RECURSIVE Concat(_)
Concat(ss) == IF Len(ss) = 0 THEN <<>> ELSE ss[1] \o Concat(Tail(ss))

\* the texts made of at most n tokens
TokenTexts(n) == {Concat(ts) : ts \in UNION {[1..k -> Tokens] : k \in 0..n}}

\* the texts of at most MaxTokens tokens and five longer ones
Texts ==
    TokenTexts(MaxTokens) \cup
    { <<"a", "-", " ", "b", "-", " ", "c">>,
      <<"-", " ", "-", " ", "a">>,
      <<"G", "r", "u", "n", "d", "b", "u", "-", "\n", "c", "h">>,
      <<"L", "a", "n", "d", "-", " ", "u", "n", "d", " ", "F", "o", "r", "s",
        "t", "w", "i", "r", "t", "s", "c", "h", "a", "f", "t">>,
      <<"G", "r", "u", "n", "d", "-", " ", "u", "n", "d", " ", "B", "o", "d",
        "e", "n", "-", " ", "a", "m", "t">> }

StringOrLinesValues ==
    {SingleLine(s) : s \in Texts}
    \cup {MultiLine(str_lines(s)) : s \in Texts}

\* the sub-segments of unhyphenate(text_clean's block): the pieces of every
\* line between the occurrences of "- und "
Segments(self) ==
    LET ls == str_lines(join(StringOrLines_lines(self), CRLF))
    IN UNION { { str_split(ls[k], UndMarker)[i] :
                    i \in 1..Len(str_split(ls[k], UndMarker)) } :
               k \in 1..Len(ls) }

InitText ==
    /\ text \in StringOrLinesValues
    /\ clean = <<>>
    /\ rendered = <<>>
    /\ converted = MultiLine(<<>>)
    /\ \/ segment = <<>> /\ done = {}
       \/ segment \in Segments(text) /\ done = {"loop"}
    /\ Idle("Geroetet")
    /\ Idle("Groesse")
    /\ Idle("Codec")

Call_text_clean ==
    /\ done \cap {"text_clean", "loop"} = {}
    /\ clean' = text_clean(text)
    /\ done' = done \cup {"text_clean"}
    /\ UNCHANGED <<text, rendered, converted, segment, varsGeroetet, varsGroesse, varsCodec>>

Call_text ==
    /\ done = {}
    /\ rendered' = StringOrLines_text(text)
    /\ done' = {"text"}
    /\ UNCHANGED <<text, clean, converted, segment, varsGeroetet, varsGroesse, varsCodec>>

Call_String_from ==
    /\ done = {}
    /\ rendered' = String_from(text)
    /\ done' = {"String::from"}
    /\ UNCHANGED <<text, clean, converted, segment, varsGeroetet, varsGroesse, varsCodec>>

Call_StringOrLines_from ==
    /\ done \in {{"text"}, {"String::from"}}
    /\ converted' = StringOrLines_from(rendered)
    /\ done' = done \cup {"StringOrLines::from"}
    /\ UNCHANGED <<text, clean, rendered, segment, varsGeroetet, varsGroesse, varsCodec>>

\* one pass of the loop: the pattern matches, s = replace_all(s)
Loop_replace_all ==
    /\ done = {"loop"}
    /\ is_match(segment)
    /\ segment' = replace_all(segment)
    /\ UNCHANGED <<text, clean, rendered, converted, done, varsGeroetet,
                   varsGroesse, varsCodec>>

\* the mutant of the exit: the loop is left whether the pattern matches or
\* not
Loop_exit_untested ==
    /\ done = {"loop"}
    /\ done' = {"loop", "exit"}
    /\ UNCHANGED <<varsText, varsGeroetet, varsGroesse, varsCodec>>

\* the pattern does not match: the loop is left and s is pushed
Loop_exit ==
    /\ done = {"loop"}
    /\ ~is_match(segment)
    /\ done' = {"loop", "exit"}
    /\ UNCHANGED <<varsText, varsGeroetet, varsGroesse, varsCodec>>

NextText ==
    \/ Call_text_clean
    \/ Call_text
    \/ Call_String_from
    \/ Call_StringOrLines_from
    \/ Loop_replace_all
    \/ Loop_exit

SpecText == InitText /\ [][NextText]_vars

\* the loop is sequential code: a pass or the exit that can be taken is taken
SpecTextFair == SpecText /\ WF_vars(Loop_replace_all) /\ WF_vars(Loop_exit)

\* the lines of the text block that text_clean() hands to unhyphenate
InputLines == str_lines(join(StringOrLines_lines(text), CRLF))

Contains(s, pat) == find(s, pat, 1) # 0

EndsWithHyphen(l) == Len(l) > 0 /\ l[Len(l)] = "-"
StartsLower(l) == Len(l) > 0 /\ l[1] \in LowerLetter

\* C6 as stated: a word split by a hyphen at a line break is rejoined by
\* text_clean(): where a line ends with a hyphen and the next line starts
\* with a lowercase letter, the output holds the two parts joined without
\* the hyphen and the line break; "Grundbu-\nch" gives "Grundbuch".
C6_Dehyphenation ==
    "text_clean" \in done =>
        /\ \A k \in 1..(Len(InputLines) - 1) :
                (/\ EndsWithHyphen(InputLines[k])
                 /\ StartsLower(InputLines[k + 1])
                 /\ ~Contains(pop(InputLines[k]) \o InputLines[k + 1], <<"-">>))
                => Contains(clean, pop(InputLines[k]) \o InputLines[k + 1])
        /\ text = SingleLine(<<"G", "r", "u", "n", "d", "b", "u", "-", "\n", "c", "h">>)
                => clean = <<"G", "r", "u", "n", "d", "b", "u", "c", "h">>

\* number of occurrences of pat in s, counted from the left without overlap
RECURSIVE Occurrences(_, _)
Occurrences(s, pat) ==
    LET i == find(s, pat, 1)
    IN IF i = 0 THEN 0
       ELSE 1 + Occurrences(SubSeq(s, i + Len(pat), Len(s)), pat)

\* a line with every "- und " kept in place and the text on its two sides
\* normalized separately
RECURSIVE AroundMarkers(_)
AroundMarkers(l) ==
    LET i == find(l, UndMarker, 1)
    IN IF i = 0 THEN unhyphenate(l)
       ELSE unhyphenate(SubSeq(l, 1, i - 1)) \o UndMarker
               \o AroundMarkers(SubSeq(l, i + Len(UndMarker), Len(l)))

LandUndForst ==
    <<"L", "a", "n", "d", "-", " ", "u", "n", "d", " ", "F", "o", "r", "s",
      "t", "w", "i", "r", "t", "s", "c", "h", "a", "f", "t">>

\* C7: the hyphen-joining rule never merges across "- und ": every
\* occurrence of the marker in a line of the input is in the output, between
\* the separately normalized texts of its two sides, and
\* "Land- und Forstwirtschaft" is returned unchanged.
C7_UndMarkerKept ==
    "text_clean" \in done =>
        /\ clean = Concat([k \in 1..Len(InputLines) |-> AroundMarkers(InputLines[k])])
        /\ Occurrences(clean, UndMarker)
              >= Occurrences(join(InputLines, <<"\n">>), UndMarker)
        /\ text = SingleLine(LandUndForst) => clean = LandUndForst

\* C7 witness: a text with the marker and a hyphenation behind it, of which
\* only the hyphenation is merged
C7_Witness ==
    /\ "text_clean" \in done
    /\ text = SingleLine(<<"G", "r", "u", "n", "d", "-", " ", "u", "n", "d", " ",
                            "B", "o", "d", "e", "n", "-", " ", "a", "m", "t">>)
    /\ clean = <<"G", "r", "u", "n", "d", "-", " ", "u", "n", "d", " ",
                  "B", "o", "d", "e", "n", "a", "m", "t">>

(***************************************************************************)
(* The wire format: JSON values                                            *)
(***************************************************************************)
JNull == [t |-> "null"]
JBool(b) == [t |-> "bool", b |-> b]
\* an integer number
JNum(n) == [t |-> "num", n |-> n]
\* a number written with a fraction, as every f32 is
JFloat(x) == [t |-> "float", x |-> x]
JStr(s) == [t |-> "str", s |-> s]
JArr(a) == [t |-> "arr", a |-> a]
\* an object: a function from its keys to their values
JObj(o) == [t |-> "obj", o |-> o]

Err == <<>>
Ok(v) == <<v>>
is_err(r) == Len(r) = 0
is_ok(r) == Len(r) = 1

(***************************************************************************)
(* Emptiness predicates and default values                                 *)
(***************************************************************************)
HocrLayout_is_empty(self) == DOMAIN self.seiten = {}

Bestandsverzeichnis_is_empty(self) ==
    /\ Len(self.eintraege) = 0
    /\ Len(self.zuschreibungen) = 0
    /\ Len(self.abschreibungen) = 0

\* the mutant of Abteilung1_is_empty: grundlagen_eintragungen is not looked at
Abteilung1_is_empty_three_lists(self) ==
    /\ Len(self.eintraege) = 0
    /\ Len(self.veraenderungen) = 0
    /\ Len(self.loeschungen) = 0

Abteilung1_is_empty(self) ==
    /\ Len(self.eintraege) = 0
    /\ Len(self.grundlagen_eintragungen) = 0
    /\ Len(self.veraenderungen) = 0
    /\ Len(self.loeschungen) = 0

Abteilung2_is_empty(self) ==
    /\ Len(self.eintraege) = 0
    /\ Len(self.veraenderungen) = 0
    /\ Len(self.loeschungen) = 0

Abteilung3_is_empty(self) ==
    /\ Len(self.eintraege) = 0
    /\ Len(self.veraenderungen) = 0
    /\ Len(self.loeschungen) = 0

\* #[serde(skip_serializing_if = "...")]
skip_serializing_if(pred, v) ==
    CASE pred = "never" -> FALSE
      [] pred = "Option::is_none" -> is_none(v)
      [] pred = "String::is_empty" -> Len(v) = 0
      [] pred = "Vec::is_empty" -> Len(v) = 0
      [] pred = "BTreeMap::is_empty" -> DOMAIN v = {}
      [] pred = "StringOrLines::is_empty" -> StringOrLines_is_empty(v)
      [] pred = "FlurstueckGroesse::ist_leer" -> ist_leer(v)
      [] pred = "HocrLayout::is_empty" -> HocrLayout_is_empty(v)
      [] pred = "Bestandsverzeichnis::is_empty" -> Bestandsverzeichnis_is_empty(v)
      [] pred = "Abteilung1::is_empty" -> Abteilung1_is_empty(v)
      [] pred = "Abteilung2::is_empty" -> Abteilung2_is_empty(v)
      [] pred = "Abteilung3::is_empty" -> Abteilung3_is_empty(v)

\* impl Default for FlurstueckGroesse
FlurstueckGroesse_default == Metrisch(None)

\* Default::default() of a type; a struct with #[derive(Default)] has every
\* field at its default
RECURSIVE Default(_)
Default(ty) ==
    CASE ty[1] = "bool" -> FALSE
      [] ty[1] \in {"usize", "u64", "f32"} -> 0
      [] ty[1] \in {"String", "Vec", "BTreeMap", "Option"} -> <<>>
      [] ty[1] = "StringOrLines" -> StringOrLines_default
      [] ty[1] = "FlurstueckGroesse" -> FlurstueckGroesse_default
      [] ty[1] \in StructNames ->
            LET schema == Schema(ty[1])
            IN [nm \in FieldNames(schema) |-> Default(FieldOf(schema, nm).ty)]

(***************************************************************************)
(* Serialize                                                               *)
(***************************************************************************)
Chars(token) == <<token>>

RECURSIVE serialize(_, _)

\* #[derive(Serialize)] of a struct: the fields in order, those whose
\* skip_serializing_if holds left out
serialize_struct(name, v) ==
    LET schema == Schema(name)
        kept == {schema[i].name : i \in {j \in DOMAIN schema :
                    ~skip_serializing_if(schema[j].skip, v[schema[j].name])}}
    IN JObj([k \in kept |-> serialize(FieldOf(schema, k).ty, v[k])])

\* #[serde(tag = "typ", content = "wert")]
serialize_FlurstueckGroesse(v) ==
    CASE v.var = "Metrisch" ->
            JObj([k \in {"typ", "wert"} |->
                    IF k = "typ" THEN JStr(<<"m">>)
                    ELSE JObj([f \in {"m2"} |-> serialize(<<"Option", "u64">>, v.m2)])])
      [] v.var = "Hektar" ->
            JObj([k \in {"typ", "wert"} |->
                    IF k = "typ" THEN JStr(<<"h", "a">>)
                    ELSE JObj([f \in {"ha", "a", "m2"} |->
                            serialize(<<"Option", "u64">>, v[f])])])

serialize(ty, v) ==
    CASE ty[1] \in {"usize", "u64"} -> JNum(v)
      [] ty[1] = "f32" -> JFloat(v)
      [] ty[1] = "bool" -> JBool(v)
      [] ty[1] = "String" -> JStr(v)
      [] ty[1] = "SeitenTyp" -> JStr(Chars(v))
      [] ty[1] = "Option" ->
            IF is_none(v) THEN JNull ELSE serialize(Tail(ty), v[1])
      [] ty[1] = "Vec" ->
            JArr([i \in 1..Len(v) |-> serialize(Tail(ty), v[i])])
      [] ty[1] = "BTreeMap" ->
            JObj([k \in DOMAIN v |-> serialize(Tail(ty), v[k])])
      \* #[serde(untagged)]: the payload of the variant, nothing else
      [] ty[1] = "StringOrLines" ->
            IF v.var = "SingleLine" THEN serialize(<<"String">>, v.s)
            ELSE serialize(<<"Vec", "String">>, v.ml)
      [] ty[1] = "BvEintrag" ->
            IF v.var = "Flurstueck" THEN serialize_struct("BvEintragFlurstueck", v.v)
            ELSE serialize_struct("BvEintragRecht", v.v)
      [] ty[1] = "Abt1Eintrag" ->
            IF v.var = "V1" THEN serialize_struct("Abt1EintragV1", v.v)
            ELSE serialize_struct("Abt1EintragV2", v.v)
      [] ty[1] = "FlurstueckGroesse" -> serialize_FlurstueckGroesse(v)
      [] ty[1] \in StructNames -> serialize_struct(ty[1], v)

(***************************************************************************)
(* Deserialize.  A struct is read from a JSON object.                      *)
(***************************************************************************)
RECURSIVE deserialize(_, _)

\* the results of the elements of a sequence or map, Err if one is Err
collect(results) ==
    IF \E k \in DOMAIN results : is_err(results[k]) THEN Err
    ELSE Ok([k \in DOMAIN results |-> results[k][1]])

\* #[derive(Deserialize)] of a struct: a key of the object is read as its
\* field, unknown keys are ignored; a field without a key takes its default
\* with #[serde(default)], is None when it is an Option, and is an error
\* otherwise
deserialize_struct(name, j) ==
    IF j.t # "obj" THEN Err
    ELSE LET schema == Schema(name)
             field(nm) ==
                LET fd == FieldOf(schema, nm)
                IN IF nm \in DOMAIN j.o THEN deserialize(fd.ty, j.o[nm])
                   ELSE IF fd.default THEN Ok(Default(fd.ty))
                   ELSE IF fd.ty[1] = "Option" THEN Ok(None)
                   ELSE Err
         IN collect([nm \in FieldNames(schema) |-> field(nm)])

deserialize_FlurstueckGroesse(j) ==
    IF j.t # "obj" \/ ~({"typ", "wert"} \subseteq DOMAIN j.o) THEN Err
    ELSE LET typ == j.o["typ"]
             wert == j.o["wert"]
             component(f) ==
                IF f \in DOMAIN wert.o
                THEN deserialize(<<"Option", "u64">>, wert.o[f]) ELSE Ok(None)
         IN IF typ.t # "str" \/ wert.t # "obj" THEN Err
            ELSE IF typ.s = <<"m">> THEN
                    IF is_err(component("m2")) THEN Err
                    ELSE Ok(Metrisch(component("m2")[1]))
            ELSE IF typ.s = <<"h", "a">> THEN
                    IF \E f \in {"ha", "a", "m2"} : is_err(component(f)) THEN Err
                    ELSE Ok(Hektar(component("ha")[1], component("a")[1],
                                   component("m2")[1]))
            ELSE Err

\* #[serde(untagged)] enum StringOrLines: SingleLine is tried, then MultiLine
deserialize_StringOrLines(j) ==
    LET single == deserialize(<<"String">>, j)
        multi == deserialize(<<"Vec", "String">>, j)
    IN IF is_ok(single) THEN Ok(SingleLine(single[1]))
       ELSE IF is_ok(multi) THEN Ok(MultiLine(multi[1]))
       ELSE Err

\* #[serde(untagged)] enum BvEintrag: Flurstueck is tried, then Recht
deserialize_BvEintrag(j) ==
    LET flst == deserialize_struct("BvEintragFlurstueck", j)
        recht == deserialize_struct("BvEintragRecht", j)
    IN IF is_ok(flst) THEN Ok(Flurstueck(flst[1]))
       ELSE IF is_ok(recht) THEN Ok(Recht(recht[1]))
       ELSE Err

\* the mutant of deserialize_Abt1Eintrag: V2 is tried before V1
deserialize_Abt1Eintrag_v2_first(j) ==
    LET v1 == deserialize_struct("Abt1EintragV1", j)
        v2 == deserialize_struct("Abt1EintragV2", j)
    IN IF is_ok(v2) THEN Ok(V2(v2[1]))
       ELSE IF is_ok(v1) THEN Ok(V1(v1[1]))
       ELSE Err

\* #[serde(untagged)] enum Abt1Eintrag: V1 is tried, then V2
deserialize_Abt1Eintrag(j) ==
    LET v1 == deserialize_struct("Abt1EintragV1", j)
        v2 == deserialize_struct("Abt1EintragV2", j)
    IN IF is_ok(v1) THEN Ok(V1(v1[1]))
       ELSE IF is_ok(v2) THEN Ok(V2(v2[1]))
       ELSE Err

deserialize(ty, j) ==
    CASE ty[1] \in {"usize", "u64"} ->
            IF j.t = "num" /\ j.n >= 0 THEN Ok(j.n) ELSE Err
      [] ty[1] = "f32" ->
            IF j.t = "float" THEN Ok(j.x)
            ELSE IF j.t = "num" THEN Ok(j.n)
            ELSE Err
      [] ty[1] = "bool" -> IF j.t = "bool" THEN Ok(j.b) ELSE Err
      [] ty[1] = "String" -> IF j.t = "str" THEN Ok(j.s) ELSE Err
      [] ty[1] = "SeitenTyp" ->
            IF j.t = "str" /\ Len(j.s) = 1 /\ j.s[1] \in SeitenTyp
            THEN Ok(j.s[1]) ELSE Err
      [] ty[1] = "Option" ->
            IF j.t = "null" THEN Ok(None)
            ELSE LET inner == deserialize(Tail(ty), j)
                 IN IF is_err(inner) THEN Err ELSE Ok(Some(inner[1]))
      [] ty[1] = "Vec" ->
            IF j.t # "arr" THEN Err
            ELSE collect([i \in 1..Len(j.a) |-> deserialize(Tail(ty), j.a[i])])
      [] ty[1] = "BTreeMap" ->
            IF j.t # "obj" THEN Err
            ELSE collect([k \in DOMAIN j.o |-> deserialize(Tail(ty), j.o[k])])
      [] ty[1] = "StringOrLines" -> deserialize_StringOrLines(j)
      [] ty[1] = "BvEintrag" -> deserialize_BvEintrag(j)
      [] ty[1] = "Abt1Eintrag" -> deserialize_Abt1Eintrag(j)
      [] ty[1] = "FlurstueckGroesse" -> deserialize_FlurstueckGroesse(j)
      [] ty[1] \in StructNames -> deserialize_struct(ty[1], j)

(***************************************************************************)
(* Specification of the wire format: a PdfFile or an Abt1Eintrag is        *)
(* serialized and the wire is deserialized, or an Abt1Eintrag payload is   *)
(* received and deserialized.                                              *)
(***************************************************************************)
SampleTitelblatt ==
    [amtsgericht |-> <<"a">>, grundbuch_von |-> <<"b">>, blatt |-> <<"1">>]

EmptyGrundbuch(titelblatt) ==
    [titelblatt |-> titelblatt,
     bestandsverzeichnis |-> Default(<<"Bestandsverzeichnis">>),
     abt1 |-> Default(<<"Abteilung1">>),
     abt2 |-> Default(<<"Abteilung2">>),
     abt3 |-> Default(<<"Abteilung3">>)]

Sections == {"bestandsverzeichnis", "abt1", "abt2", "abt3"}

SectionType(sec) ==
    CASE sec = "bestandsverzeichnis" -> "Bestandsverzeichnis"
      [] sec = "abt1" -> "Abteilung1"
      [] sec = "abt2" -> "Abteilung2"
      [] sec = "abt3" -> "Abteilung3"

\* the record lists of a section
SectionLists(sec) == FieldNames(Schema(SectionType(sec)))

\* the record type of a list
ListType(sec, list) == FieldOf(Schema(SectionType(sec)), list).ty[2]

\* the base record of a record type, and a second one for the enums
BaseRecords(name) ==
    CASE name = "BvEintrag" ->
            << Flurstueck(CHOOSE r \in Variants("BvEintragFlurstueck", 0) : TRUE),
               Recht(CHOOSE r \in Variants("BvEintragRecht", 0) : TRUE) >>
      [] name = "Abt1Eintrag" ->
            << V1(CHOOSE r \in Variants("Abt1EintragV1", 0) : TRUE),
               V2(CHOOSE r \in Variants("Abt1EintragV2", 0) : TRUE) >>
      [] OTHER -> << CHOOSE r \in Variants(name, 0) : TRUE >>

BaseGrundbuch == EmptyGrundbuch(SampleTitelblatt)

\* the register document with one record r in one list
OneRecordGrundbuch(sec, list, r) == [BaseGrundbuch EXCEPT ![sec][list] = <<r>>]

\* the empty register documents and one with records in every list
SampleGrundbuecher ==
    {BaseGrundbuch, EmptyGrundbuch(Default(<<"Titelblatt">>)),
     [f \in FieldNames(Schema_Grundbuch) |->
        IF f = "titelblatt" THEN SampleTitelblatt
        ELSE [list \in SectionLists(f) |-> BaseRecords(ListType(f, list))]]}

SampleSeite ==
    [breite_mm |-> 210, hoehe_mm |-> 297,
     parsed |->
        [bounds |-> SampleRect,
         careas |-> << [bounds |-> SampleRect,
                        paragraphs |-> << [bounds |-> SampleRect,
                            lines |-> << [bounds |-> SampleRect,
                                words |-> << [bounds |-> SampleRect,
                                              confidence |-> 90,
                                              text |-> <<"a">>] >>] >>] >>] >>],
     rote_linien |-> << [punkte |-> << [x |-> 0, y |-> 0], [x |-> 1, y |-> 1] >>] >>]

SampleAnpassung ==
    [klassifikation_neu |-> Some("bv-horz"),
     spalten |-> [k \in {"bv-lfd-nr"} |-> SampleRect],
     zeilen |-> <<>>,
     zeilen_auto |-> [k \in {"0"} |-> 5]]

PdfFile(d, h, a, g) ==
    [digitalisiert |-> d, hocr |-> [seiten |-> h], anpassungen_seite |-> a,
     analysiert |-> g]

\* every combination of flag, layout and overrides around the sample
\* documents
SamplePdfFiles ==
    { PdfFile(d, h, a, g) :
        d \in BOOLEAN,
        h \in {<<>>, [k \in {"1"} |-> SampleSeite]},
        a \in {<<>>, [k \in {"1"} |-> SampleAnpassung]},
        g \in SampleGrundbuecher }

\* the values a key of a received Abt1Eintrag payload takes, apart from
\* being absent
PayloadKeys ==
    { "lfd_nr", "version", "eigentuemer", "bv_nr", "grundlage_der_eintragung",
      "automatisch_geroetet", "manuell_geroetet", "position_in_pdf", "foo" }

PayloadValues(key) ==
    CASE key = "lfd_nr" -> << JNum(1), JNum(-1), JStr(<<"a">>) >>
      [] key = "version" -> << JNum(2), JNum(-1), JNull >>
      [] key = "eigentuemer" ->
            << JStr(<<"a">>), JArr(<< JStr(<<"a">>) >>), JNum(5) >>
      [] key = "bv_nr" -> << JStr(<<"a">>), JNum(5) >>
      [] key = "grundlage_der_eintragung" -> << JStr(<<"a">>) >>
      [] key = "automatisch_geroetet" -> << JBool(TRUE), JNull, JNum(5) >>
      [] key = "manuell_geroetet" -> << JBool(FALSE) >>
      [] key = "position_in_pdf" ->
            << serialize(<<"PositionInPdf">>, PositionInPdf(<<"1">>, SampleRect)),
               JNum(5) >>
      [] key = "foo" -> << JNum(1) >>

Payloads ==
    { JNull, JNum(1), JStr(<<"a">>) }
    \cup { JObj([k \in {x \in PayloadKeys : c[x] # 0} |-> PayloadValues(k)[c[k]]]) :
             c \in {d \in [PayloadKeys -> 0..3] :
                        \A k \in PayloadKeys : d[k] <= Len(PayloadValues(k))} }

InitCodec ==
    /\ \/ type_name = "PdfFile" /\ value \in SamplePdfFiles /\ wire = JNull
            /\ done = {}
       \/ /\ type_name = "PdfFile"
          /\ \E sec \in Sections : \E list \in SectionLists(sec) :
                \E r \in Values(ListType(sec, list)) :
                    value = PdfFile(TRUE, <<>>, <<>>, OneRecordGrundbuch(sec, list, r))
          /\ wire = JNull
          /\ done = {}
       \/ type_name = "Abt1Eintrag" /\ value \in Values("Abt1Eintrag") /\ wire = JNull
            /\ done = {}
       \/ type_name = "Abt1Eintrag" /\ value = <<>> /\ wire \in Payloads
            /\ done = {"received"}
    /\ loaded = Err
    /\ Idle("Geroetet")
    /\ Idle("Groesse")
    /\ Idle("Text")

Serialize(name) ==
    /\ type_name = name
    /\ done = {}
    /\ wire' = serialize(<<name>>, value)
    /\ done' = {"serialize"}
    /\ UNCHANGED <<type_name, value, loaded, varsGeroetet, varsGroesse, varsText>>

Deserialize(name) ==
    /\ type_name = name
    /\ done \in {{"serialize"}, {"received"}}
    /\ loaded' = deserialize(<<name>>, wire)
    /\ done' = done \cup {"deserialize"}
    /\ UNCHANGED <<type_name, value, wire, varsGeroetet, varsGroesse, varsText>>

Serialize_PdfFile == Serialize("PdfFile")
Deserialize_PdfFile == Deserialize("PdfFile")
Serialize_Abt1Eintrag == Serialize("Abt1Eintrag")
Deserialize_Abt1Eintrag == Deserialize("Abt1Eintrag")

NextCodec ==
    \/ Serialize_PdfFile
    \/ Deserialize_PdfFile
    \/ Serialize_Abt1Eintrag
    \/ Deserialize_Abt1Eintrag

SpecCodec == InitCodec /\ [][NextCodec]_vars

PdfFileLoaded == type_name = "PdfFile" /\ "deserialize" \in done
EintragLoaded == type_name = "Abt1Eintrag" /\ "deserialize" \in done

HoldsNumber(j, key) ==
    /\ j.t = "obj"
    /\ key \in DOMAIN j.o
    /\ j.o[key].t = "num"
    /\ j.o[key].n >= 0

\* C3 as stated: a payload with a non-negative integer `version`, a valid
\* `lfd_nr` and otherwise consistent with the newer shape decodes to V2, and
\* the encoding of a V2 entry decodes back to that V2 entry.
C3_VersionDecodesToV2 ==
    EintragLoaded =>
        /\ (/\ HoldsNumber(wire, "version")
             /\ HoldsNumber(wire, "lfd_nr")
             /\ is_ok(deserialize_struct("Abt1EintragV2", wire)))
            => (is_ok(loaded) /\ loaded[1].var = "V2")
        /\ ("serialize" \in done /\ value.var = "V2") => loaded = Ok(value)

\* a JSON value that a text field accepts: a string or an array of strings
IsText(j) ==
    \/ j.t = "str"
    \/ j.t = "arr" /\ \A i \in 1..Len(j.a) : j.a[i].t = "str"

IsNumber(j) == j.t \in {"num", "float"}

\* a JSON value that the position field accepts
IsPosition(j) ==
    \/ j.t = "null"
    \/ /\ j.t = "obj"
       /\ {"seite", "rect"} \subseteq DOMAIN j.o
       /\ j.o["seite"].t = "str"
       /\ j.o["rect"].t = "obj"
       /\ {"min_x", "min_y", "max_x", "max_y"} \subseteq DOMAIN j.o["rect"].o
       /\ \A k \in {"min_x", "min_y", "max_x", "max_y"} : IsNumber(j.o["rect"].o[k])

\* the fields of the older shape other than lfd_nr hold, where the payload
\* has them, values of their types
OlderShapeFieldsFit(j) ==
    /\ \A k \in {"eigentuemer", "bv_nr", "grundlage_der_eintragung"} \cap DOMAIN j.o :
            IsText(j.o[k])
    /\ \A k \in {"automatisch_geroetet", "manuell_geroetet"} \cap DOMAIN j.o :
            j.o[k].t \in {"bool", "null"}
    /\ "position_in_pdf" \in DOMAIN j.o => IsPosition(j.o["position_in_pdf"])

\* C4: the older shape is tried first and the newer shape only after the
\* older attempt failed; a payload with a valid lfd_nr and no version, whose
\* other fields fit the older shape, decodes to V1; a payload without a
\* valid lfd_nr is a decode error, never an entry filled with defaults.
C4_OlderShapeFirst ==
    EintragLoaded =>
        /\ (is_ok(loaded) /\ loaded[1].var = "V2")
            => (/\ is_err(deserialize_struct("Abt1EintragV1", wire))
                /\ HoldsNumber(wire, "version"))
        /\ (/\ HoldsNumber(wire, "lfd_nr")
             /\ "version" \notin DOMAIN wire.o
             /\ OlderShapeFieldsFit(wire))
            => (/\ is_ok(loaded)
                /\ loaded[1].var = "V1"
                /\ loaded[1].v.lfd_nr = wire.o["lfd_nr"].n)
        /\ ~HoldsNumber(wire, "lfd_nr") => is_err(loaded)

\* C4 witness: a received payload with a valid lfd_nr, no version and an
\* unknown key has been decoded to a V1 entry
C4_Witness ==
    /\ EintragLoaded
    /\ "received" \in done
    /\ wire.t = "obj"
    /\ DOMAIN wire.o = {"lfd_nr", "eigentuemer", "foo"}
    /\ wire.o["lfd_nr"] = JNum(1)
    /\ is_ok(loaded)
    /\ loaded[1].var = "V1"
    /\ loaded[1].v.eigentuemer = SingleLine(<<"a">>)
    /\ loaded[1].v.bv_nr = MultiLine(<<>>)

\* a section of a register document holds a record in one of its lists
HoldsRecord(g, sec) == \E list \in SectionLists(sec) : Len(g[sec][list]) > 0

\* an envelope with an empty layout, no overrides and four empty sections
IsMinimal(pdf) ==
    /\ DOMAIN pdf.hocr.seiten = {}
    /\ DOMAIN pdf.anpassungen_seite = {}
    /\ \A sec \in Sections : ~HoldsRecord(pdf.analysiert, sec)

\* C5: an envelope with an empty layout, no overrides and four empty
\* sections encodes to the digitization flag and the title block only, and
\* that form decodes to an envelope equal to it in every component; a
\* section that holds a record in any of its lists is never left out.
C5_MinimalForm ==
    (type_name = "PdfFile" /\ "serialize" \in done) =>
        /\ IsMinimal(value) =>
                /\ wire.t = "obj"
                /\ DOMAIN wire.o = {"digitalisiert", "analysiert"}
                /\ wire.o["digitalisiert"] = JBool(value.digitalisiert)
                /\ wire.o["analysiert"].t = "obj"
                /\ DOMAIN wire.o["analysiert"].o = {"titelblatt"}
                /\ wire.o["analysiert"].o["titelblatt"] =
                      JObj([k \in {"amtsgericht", "grundbuch_von", "blatt"} |->
                                JStr(value.analysiert.titelblatt[k])])
        /\ (IsMinimal(value) /\ "deserialize" \in done) =>
                /\ is_ok(loaded)
                /\ loaded[1].digitalisiert = value.digitalisiert
                /\ DOMAIN loaded[1].hocr.seiten = {}
                /\ DOMAIN loaded[1].anpassungen_seite = {}
                /\ loaded[1].analysiert = value.analysiert
        /\ \A sec \in Sections :
                HoldsRecord(value.analysiert, sec)
                    => sec \in DOMAIN wire.o["analysiert"].o

\* C5 witness: a minimal envelope with the flag set has been encoded and
\* decoded
C5_Witness ==
    /\ PdfFileLoaded
    /\ IsMinimal(value)
    /\ value.digitalisiert
    /\ DOMAIN wire.o = {"digitalisiert", "analysiert"}
    /\ is_ok(loaded)
    /\ loaded[1].analysiert = value.analysiert

\* an ownership-entry payload without the text field `eigentuemer` has been
\* received and decoded
OmittedTextRestored ==
    /\ EintragLoaded
    /\ "received" \in done
    /\ wire.t = "obj"
    /\ "eigentuemer" \notin DOMAIN wire.o
    /\ is_ok(loaded)

\* C11 as stated: StringOrLines::default() is the opaque-string variant
\* holding the empty string, and a decoder restores that value for a text
\* field left out of the encoding.
C11_Original ==
    OmittedTextRestored =>
        /\ StringOrLines_default = SingleLine(<<>>)
        /\ loaded[1].v.eigentuemer = SingleLine(<<>>)

\* C11 amended: StringOrLines::default() is the line-list variant holding no
\* lines, and a decoder restores that value for a text field left out of
\* the encoding.
C11_DefaultIsEmptyList ==
    OmittedTextRestored =>
        /\ StringOrLines_default = MultiLine(<<>>)
        /\ loaded[1].v.eigentuemer = StringOrLines_default
        /\ loaded[1].v.eigentuemer = MultiLine(<<>>)

\* C11 witness: the payload with lfd_nr only has been decoded and its text
\* field holds no lines
C11_Witness ==
    /\ OmittedTextRestored
    /\ DOMAIN wire.o = {"lfd_nr"}
    /\ loaded[1].var = "V1"
    /\ StringOrLines_lines(loaded[1].v.eigentuemer) = <<>>
    /\ loaded[1].v.eigentuemer.var = "MultiLine"

\* a StringOrLines has been built from the rendered String
Converted == "StringOrLines::from" \in done

\* C12: for every plain string s, the flexible text built from s is the
\* line-list variant, and its lines() is the sequence that lines() gives for
\* the opaque variant holding s and for the line-list variant built from
\* the lines of s.
C12_SameLines ==
    (Converted /\ "String::from" \in done /\ text.var = "SingleLine") =>
        /\ rendered = text.s
        /\ converted.var = "MultiLine"
        /\ StringOrLines_lines(converted) = StringOrLines_lines(SingleLine(rendered))
        /\ StringOrLines_lines(converted)
              = StringOrLines_lines(MultiLine(str_lines(rendered)))

\* C12 witness: a flexible text has been built from a plain string of two
\* lines that ends with a line break
C12_Witness ==
    /\ Converted
    /\ text = SingleLine(<<"a", "\n", "B", "\n">>)
    /\ rendered = <<"a", "\n", "B", "\n">>
    /\ converted = MultiLine(<< <<"a">>, <<"B">> >>)

\* C13 as stated: rendering a flexible text of either variant with text() or
\* with String::from and building a flexible text from the result gives a
\* value with the same lines(), in number and content.
C13_LinesKept ==
    Converted =>
        /\ Len(StringOrLines_lines(converted)) = Len(StringOrLines_lines(text))
        /\ StringOrLines_lines(converted) = StringOrLines_lines(text)

\* the letters a-z, ae, oe, ue that the hyphen-joining rule is stated for
QualifyingLetter ==
    {"a", "b", "c", "d", "e", "f", "g", "h", "i", "j", "k", "l", "m", "n", "o",
     "p", "q", "r", "s", "t", "u", "v", "w", "x", "y", "z", "ä", "ö", "ü"}

\* the positions of the hyphens of s that are followed by one whitespace
\* character and then a qualifying letter
Qualifying(s) ==
    { i \in 1..(Len(s) - 2) :
        /\ s[i] = "-"
        /\ s[i + 1] \in {" ", "\t", "\r", "\n"}
        /\ s[i + 2] \in QualifyingLetter }

\* C14: the replacement loop of a sub-segment terminates, every pass that
\* matches makes the sub-segment strictly shorter, and at the exit no
\* hyphen followed by one whitespace and a letter of a-z or an umlaut is
\* left in the sub-segment.
C14_LoopTerminates ==
    /\ [][Loop_replace_all => Len(segment') < Len(segment)]_vars
    /\ ("loop" \in done) ~> ("exit" \in done)
    /\ [](("exit" \in done) => Qualifying(segment) = {})

\* C14 witness: the loop has been left after the two passes that the two
\* hyphenations of "a- b- c" need
C14_Witness ==
    /\ "exit" \in done
    /\ text = SingleLine(<<"a", "-", " ", "b", "-", " ", "c">>)
    /\ segment = <<"a", "b", "c">>

\* s without the hyphens at the positions D and the whitespace behind them
WithoutPairs(s, D) ==
    LET keep == {i \in 1..Len(s) : i \notin D /\ (i - 1) \notin D}
    IN [k \in 1..Cardinality(keep) |->
            s[CHOOSE i \in keep : Cardinality({j \in keep : j <= i}) = k]]

\* C15 as stated: unhyphenate leaves in place every hyphen of the input that
\* is not followed by exactly one whitespace and then a letter of a-z or an
\* umlaut: what the loop pushes for a sub-segment is that sub-segment
\* without some of its qualifying hyphens and the whitespace behind them,
\* every other character unchanged and in place.
C15_OtherHyphensKept ==
    ("exit" \in done) =>
        \E g \in Segments(text) :
            \E D \in SUBSET Qualifying(g) : segment = WithoutPairs(g, D)

\* C16 as stated: for a Hektar value with a <= 99 and m2 <= 99 the three
\* display strings give back the stored components: get_ha_string() writes
\* ha, get_a_string() writes a and get_m2_string() writes m2, an empty
\* string and an absent component counting as 0.
C16_ComponentsGivenBack ==
    (/\ AllStringsDone
     /\ groesse.var = "Hektar"
     /\ Counted(groesse.a) <= 99
     /\ Counted(groesse.m2) <= 99) =>
        /\ Number(ha_string) = Counted(groesse.ha)
        /\ Number(a_string) = Counted(groesse.a)
        /\ Number(m2_string) = Counted(groesse.m2)

\* the bytes of x without the zero bytes at its upper end
RECURSIVE Trim(_)
Trim(x) ==
    IF Len(x) > 0 /\ x[Len(x)] = 0 THEN Trim(SubSeq(x, 1, Len(x) - 1)) ELSE x

\* the exact value ha * 100000 + a * 100 + m2 of a Hektar value over the u64
\* range, absent components counting as 0
ExactTotal(self) ==
    LET zero == <<0, 0, 0, 0, 0, 0, 0, 0>>
        ha == wide_mul(unwrap_or(self.ha, zero), 100000, 0)
        a == wide_mul(unwrap_or(self.a, zero), 100, 0)
        sum == wide_add(ha, a, 0)
        m == unwrap_or(self.m2, zero) \o <<0, 0, 0, 0>>
    IN Trim(wide_add(sum, m, 0))

\* C17 as stated: get_m2() never overflows: for every Hektar value with
\* components of the u64 range the call neither aborts nor wraps around, it
\* returns the exact value of ha * 100000 + a * 100 + m2.
C17_NeverOverflows ==
    ("get_m2_u64" \in done) =>
        /\ total.var = "value"
        /\ Trim(total.v) = ExactTotal(wide)
====
